---- MODULE Spec2Model ----
(***************************************************************************)
(* Model of scripts/Qual Coding Example.py: process_excel_file loads a     *)
(* spreadsheet, asks a remote completion service for one label per row     *)
(* through SimpleFeedbackAnalyzer.get_area_for_improvement, and writes the *)
(* augmented spreadsheet.                                                  *)
(*                                                                         *)
(* A Python str is a sequence of one-character strings, so that str.strip  *)
(* and the membership test of the label are computed, not assumed.  A cell *)
(* of the DataFrame is a record [kind, v]: kind is the Python type of the  *)
(* value and v its characters.                                             *)
(***************************************************************************)
EXTENDS Integers, Sequences, FiniteSets, TLC

\* Bounds of the model.
MaxRows == 2
MaxPad == 1

Range(s) == {s[k] : k \in DOMAIN s}

(***************************************************************************)
(* Python values                                                           *)
(***************************************************************************)
StrVal(s) == [kind |-> "str", v |-> s]
IntVal(s) == [kind |-> "int", v |-> s]
NaN == [kind |-> "float", v |-> <<"n", "a", "n">>]

\* The characters str.strip() removes (a subset of Python's whitespace).
Whitespace == {" ", "\n"}

\* bool(value): "" and 0 are falsy, any other str or int is truthy, and the
\* float nan pandas stores for an empty cell is truthy.
Truthy(val) ==
    CASE val.kind = "str" -> val.v # <<>>
      [] val.kind = "int" -> val.v # <<"0">>
      [] OTHER -> TRUE

RECURSIVE lstrip(_)
lstrip(s) == IF s # <<>> /\ Head(s) \in Whitespace THEN lstrip(Tail(s)) ELSE s

RECURSIVE rstrip(_)
rstrip(s) ==
    IF s # <<>> /\ s[Len(s)] \in Whitespace
    THEN rstrip(SubSeq(s, 1, Len(s) - 1))
    ELSE s

\* A plausible slip: only the leading whitespace is removed.
stripLeadingOnly(s) == lstrip(s)

\* str.strip()
strip(s) == rstrip(lstrip(s))

(***************************************************************************)
(* The taxonomy                                                            *)
(***************************************************************************)
teaching_skills ==
    << <<"C", "l", "a", "s", "s", "r", "o", "o", "m", " ", "M", "a", "n", "a", "g", "e", "m", "e", "n", "t">>,
       <<"L", "e", "s", "s", "o", "n", " ", "P", "l", "a", "n", "n", "i", "n", "g">>,
       <<"D", "i", "f", "f", "e", "r", "e", "n", "t", "i", "a", "t", "i", "o", "n">>,
       <<"A", "s", "s", "e", "s", "s", "m", "e", "n", "t", " ", "a", "n", "d", " ", "F", "e", "e", "d", "b", "a", "c", "k">>,
       <<"S", "t", "u", "d", "e", "n", "t", " ", "E", "n", "g", "a", "g", "e", "m", "e", "n", "t">>,
       <<"S", "t", "u", "d", "e", "n", "t", " ", "C", "o", "m", "p", "r", "e", "h", "e", "n", "s", "i", "o", "n">>,
       <<"C", "o", "m", "m", "u", "n", "i", "c", "a", "t", "i", "o", "n">> >>

other == <<"o", "t", "h", "e", "r">>
none == <<"n", "o", "n", "e">>
multiple == <<"m", "u", "l", "t", "i", "p", "l", "e">>

\* self.teaching_skills + ["other", "none", "multiple"]
expected_values == teaching_skills \o <<other, none, multiple>>

\* A plausible slip: the response is trimmed but never validated.
coerceUnchecked(content) == strip(content)

\* area = content.strip(); if area not in expected values: area = "other"
coerce(content) ==
    IF strip(content) \in Range(expected_values) THEN strip(content) ELSE other

(***************************************************************************)
(* Inputs: the spreadsheet and the replies of the remote service           *)
(***************************************************************************)
LabelColumn == "area_for_improvement"
TextColumn == "text"

\* The values a text cell can hold: empty and whitespace-only strings, an
\* ordinary comment, the nan of an empty cell, and numbers.
TextValues ==
    { StrVal(<<>>), StrVal(<<" ">>), StrVal(<<"H", "i">>), NaN,
      IntVal(<<"0">>), IntVal(<<"5">>) }

\* The value of a label column that the input file already has.
OldLabel == StrVal(<<"o", "l", "d">>)

Digit(k) == CASE k = 1 -> "1" [] k = 2 -> "2" [] k = 3 -> "3" [] OTHER -> "4"

\* pd.read_excel: the columns in file order and one mapping per row.
MkFrame(layout, texts) ==
    [columns |-> layout,
     rows |-> [k \in 1..Len(texts) |->
                 [c \in Range(layout) |->
                    CASE c = "id" -> IntVal(<<Digit(k)>>)
                      [] c = TextColumn -> texts[k]
                      [] OTHER -> OldLabel]]]

TextLists == UNION {[1..n -> TextValues] : n \in 0..MaxRows}

Inputs ==
    {MkFrame(l, t) : l \in {<<"id", "text">>, <<"id", "text", LabelColumn>>},
                     t \in TextLists}
    \cup {MkFrame(<<"id">>, [k \in 1..n |-> NaN]) : n \in 0..MaxRows}

Pads == UNION {[1..n -> Whitespace] : n \in 0..MaxPad}

\* What the model may answer before padding: allowed labels, a label that
\* is not in the taxonomy, other capitalisation, punctuation, quotes, nothing.
Bodies ==
    { teaching_skills[1], none, multiple,
      <<"T", "i", "m", "e", " ", "M", "a", "n", "a", "g", "e", "m", "e", "n", "t">>,
      <<"c", "l", "a", "s", "s", "r", "o", "o", "m", " ", "m", "a", "n", "a", "g", "e", "m", "e", "n", "t">>,
      <<"n", "o", "n", "e", ".">>,
      <<"\"", "n", "o", "n", "e", "\"">>,
      <<>> }

Responses == {l \o b \o r : l \in Pads, b \in Bodies, r \in Pads}

(***************************************************************************)
(* State                                                                   *)
(***************************************************************************)
VARIABLES
    input,          \* the content of input_file
    pc,             \* the statement process_excel_file is at
    abortedAt,      \* the statement whose exception line 179 caught
    df,             \* the DataFrame
    index,          \* the position of the row the loop is at (1-based)
    feedback_text,  \* <<>> or <<the value of row['text']>>
    response,       \* <<>> or <<message.content of the reply>>
    result,         \* <<>> or <<the label get_area_for_improvement returned>>
    inflight,       \* completion requests sent and not yet answered
    calls,          \* calls[k]: requests sent for row k
    failed,         \* rows whose request raised an exception
    classified,     \* classified[k]: executions of line 169 for row k
    output          \* <<>> or <<the content of output_file>>

vars == <<input, pc, abortedAt, df, index, feedback_text, response, result,
          inflight, calls, failed, classified, output>>

NoFrame == [columns |-> <<>>, rows |-> <<>>]

NRows == Len(input.rows)

Init ==
    /\ input \in Inputs
    /\ pc = "unloaded"
    /\ abortedAt = ""
    /\ df = NoFrame
    /\ index = 0
    /\ feedback_text = <<>>
    /\ response = <<>>
    /\ result = <<>>
    /\ inflight = 0
    /\ calls = [k \in 1..Len(input.rows) |-> 0]
    /\ failed = {}
    /\ classified = [k \in 1..Len(input.rows) |-> 0]
    /\ output = <<>>

\* except Exception as e: print(...); process_excel_file returns.
Abort ==
    /\ pc' = "Aborted"
    /\ abortedAt' = pc

(***************************************************************************)
(* process_excel_file                                                      *)
(***************************************************************************)
\* df = pd.read_excel(input_file)
Load ==
    /\ pc = "unloaded"
    /\ df' = input
    /\ pc' = "loaded"
    /\ UNCHANGED <<input, abortedAt, index, feedback_text, response, result,
                   inflight, calls, failed, classified, output>>

\* pd.read_excel raises: missing, unreadable or unparseable file.
LoadFail ==
    /\ pc = "unloaded"
    /\ Abort
    /\ UNCHANGED <<input, df, index, feedback_text, response, result,
                   inflight, calls, failed, classified, output>>

\* analyzer = SimpleFeedbackAnalyzer(env_path)
Construct ==
    /\ pc = "loaded"
    /\ pc' = "constructed"
    /\ UNCHANGED <<input, abortedAt, df, index, feedback_text, response,
                   result, inflight, calls, failed, classified, output>>

\* OpenAI(api_key=None) raises when OPENAI_API_KEY is not set.
ConstructFail ==
    /\ pc = "loaded"
    /\ Abort
    /\ UNCHANGED <<input, df, index, feedback_text, response, result,
                   inflight, calls, failed, classified, output>>

\* df[column] = value: overwrites the column when the frame has one of that
\* name and appends it otherwise.
SetColumn(frame, column, value) ==
    [columns |-> IF column \in Range(frame.columns)
                 THEN frame.columns
                 ELSE Append(frame.columns, column),
     rows |-> [k \in DOMAIN frame.rows |->
                 [c \in DOMAIN frame.rows[k] \cup {column} |->
                    IF c = column THEN value ELSE frame.rows[k][c]]]]

\* df['area_for_improvement'] = 'none', and the loop starts.
AddColumn ==
    /\ pc = "constructed"
    /\ df' = SetColumn(df, LabelColumn, StrVal(none))
    /\ index' = 1
    /\ pc' = "iter"
    /\ UNCHANGED <<input, abortedAt, feedback_text, response, result,
                   inflight, calls, failed, classified, output>>

\* for index, row in df.iterrows(): feedback_text = row['text'].  The loop
\* ends after the last row; row['text'] raises KeyError without the column.
NextRow ==
    /\ pc = "iter"
    /\ IF index > Len(df.rows)
       THEN /\ pc' = "write"
            /\ UNCHANGED <<abortedAt, feedback_text>>
       ELSE IF TextColumn \in DOMAIN df.rows[index]
            THEN /\ feedback_text' = <<df.rows[index][TextColumn]>>
                 /\ pc' = "guard"
                 /\ UNCHANGED abortedAt
            ELSE /\ Abort
                 /\ UNCHANGED feedback_text
    /\ UNCHANGED <<input, df, index, response, result, inflight, calls,
                   failed, classified, output>>

(***************************************************************************)
(* SimpleFeedbackAnalyzer.get_area_for_improvement                         *)
(***************************************************************************)
\* if not feedback_text or len(feedback_text.strip()) < 0: return "none".
\* A falsy value returns "none".  A truthy value that is not a str has no
\* strip: AttributeError, raised outside the try of this method.  For a str
\* the length test is never true and the method goes on to the request.
Guard ==
    /\ pc = "guard"
    /\ LET text == feedback_text[1] IN
       IF ~Truthy(text)
       THEN /\ result' = <<none>>
            /\ pc' = "store"
            /\ UNCHANGED abortedAt
       ELSE IF text.kind # "str"
            THEN /\ Abort
                 /\ UNCHANGED result
            ELSE IF Len(strip(text.v)) < 0
                 THEN /\ result' = <<none>>
                      /\ pc' = "store"
                      /\ UNCHANGED abortedAt
                 ELSE /\ pc' = "request"
                      /\ UNCHANGED <<abortedAt, result>>
    /\ UNCHANGED <<input, df, index, feedback_text, response, inflight,
                   calls, failed, classified, output>>

\* self.client.chat.completions.create(...): the request leaves.
SendRequest ==
    /\ pc = "request"
    /\ inflight' = inflight + 1
    /\ calls' = [calls EXCEPT ![index] = @ + 1]
    /\ pc' = "await"
    /\ UNCHANGED <<input, abortedAt, df, index, feedback_text, response,
                   result, failed, classified, output>>

\* The service answers with some text: area = content.strip(), validated,
\* is returned.
RemoteReturn ==
    /\ pc = "await"
    /\ inflight > 0
    /\ \E content \in Responses :
           /\ response' = <<content>>
           /\ result' = <<coerce(content)>>
    /\ inflight' = inflight - 1
    /\ pc' = "store"
    /\ UNCHANGED <<input, abortedAt, df, index, feedback_text, calls, failed,
                   classified, output>>

\* A plausible slip: the handler sends the request again.
RemoteFailRetries ==
    /\ pc = "await"
    /\ inflight > 0
    /\ inflight' = inflight - 1
    /\ failed' = failed \cup {index}
    /\ pc' = "request"
    /\ UNCHANGED <<input, abortedAt, df, index, feedback_text, response,
                   result, calls, classified, output>>

\* A plausible slip: the handler goes back to waiting for the reply.
RemoteFailWaits ==
    /\ pc = "await"
    /\ inflight > 0
    /\ inflight' = inflight - 1
    /\ failed' = failed \cup {index}
    /\ pc' = "await"
    /\ UNCHANGED <<input, abortedAt, df, index, feedback_text, response,
                   result, calls, classified, output>>

\* The request raises (network, authentication, rate limit, a reply without
\* content): except Exception: print(...); return "none".
RemoteFail ==
    /\ pc = "await"
    /\ inflight > 0
    /\ inflight' = inflight - 1
    /\ failed' = failed \cup {index}
    /\ result' = <<none>>
    /\ pc' = "store"
    /\ UNCHANGED <<input, abortedAt, df, index, feedback_text, response,
                   calls, classified, output>>

(***************************************************************************)
(* process_excel_file, continued                                           *)
(***************************************************************************)
\* df.at[index, column] = value
SetCell(frame, k, column, value) ==
    [frame EXCEPT !.rows[k][column] = value]

\* A plausible slip: the loop does not move on to the next row.
StoreStays ==
    /\ pc = "store"
    /\ df' = SetCell(df, index, LabelColumn, StrVal(result[1]))
    /\ classified' = [classified EXCEPT ![index] = @ + 1]
    /\ feedback_text' = <<>>
    /\ response' = <<>>
    /\ result' = <<>>
    /\ pc' = "iter"
    /\ UNCHANGED <<input, abortedAt, index, inflight, calls, failed, output>>

\* df.at[index, 'area_for_improvement'] = result; the loop body ends and the
\* values of this iteration are dropped.
Store ==
    /\ pc = "store"
    /\ df' = SetCell(df, index, LabelColumn, StrVal(result[1]))
    /\ classified' = [classified EXCEPT ![index] = @ + 1]
    /\ index' = index + 1
    /\ feedback_text' = <<>>
    /\ response' = <<>>
    /\ result' = <<>>
    /\ pc' = "iter"
    /\ UNCHANGED <<input, abortedAt, inflight, calls, failed, output>>

\* df.to_excel(output_file, index=False)
Write ==
    /\ pc = "write"
    /\ output' = <<df>>
    /\ pc' = "Written"
    /\ UNCHANGED <<input, abortedAt, df, index, feedback_text, response,
                   result, inflight, calls, failed, classified>>

\* A plausible slip: the file is written before the failure is raised.
WriteFailAfterWriting ==
    /\ pc = "write"
    /\ output' = <<df>>
    /\ Abort
    /\ UNCHANGED <<input, df, index, feedback_text, response, result,
                   inflight, calls, failed, classified>>

\* df.to_excel raises: the destination is not writable.
WriteFail ==
    /\ pc = "write"
    /\ Abort
    /\ UNCHANGED <<input, df, index, feedback_text, response, result,
                   inflight, calls, failed, classified, output>>

Next ==
    \/ Load
    \/ LoadFail
    \/ Construct
    \/ ConstructFail
    \/ AddColumn
    \/ NextRow
    \/ Guard
    \/ SendRequest
    \/ RemoteReturn
    \/ RemoteFail
    \/ Store
    \/ Write
    \/ WriteFail

Spec == Init /\ [][Next]_vars

\* One thread of control runs the statements in turn, and a request that was
\* sent is eventually answered or fails.
FairSpec == Spec /\ WF_vars(Next)

(***************************************************************************)
(* Properties                                                              *)
(***************************************************************************)
Allowed == Range(expected_values)

LoopPcs == {"iter", "guard", "request", "await", "store"}

\* Line 157 has run: the label column holds what the program stored.
LabelsAssigned ==
    \/ pc \in LoopPcs \cup {"write", "Written"}
    \/ pc = "Aborted" /\ abortedAt \in LoopPcs \cup {"write"}

Label(frame, k) == frame.rows[k][LabelColumn]

AllowedLabel(cell) == cell.kind = "str" /\ cell.v \in Allowed

Terminal == pc \in {"Written", "Aborted"}

\* An empty or whitespace-only str.
IsBlank(cell) ==
    cell.kind = "str" /\ \A j \in DOMAIN cell.v : cell.v[j] \in Whitespace

NonEmptyStr(cell) == cell.kind = "str" /\ cell.v # <<>>

HasText(k) == TextColumn \in DOMAIN input.rows[k]

\* The number of whitespace characters s starts with, and ends with.
Leading(s) ==
    CHOOSE a \in 0..Len(s) :
        /\ \A j \in 1..a : s[j] \in Whitespace
        /\ a < Len(s) => s[a + 1] \notin Whitespace

Trailing(s) ==
    CHOOSE b \in 0..Len(s) :
        /\ \A j \in (Len(s) - b + 1)..Len(s) : s[j] \in Whitespace
        /\ b < Len(s) => s[Len(s) - b] \notin Whitespace

\* s without its leading and trailing whitespace.
Trimmed(s) ==
    IF Leading(s) = Len(s)
    THEN <<>>
    ELSE SubSeq(s, Leading(s) + 1, Len(s) - Trailing(s))

\* C1: every label the pipeline has stored for a row, every label
\* get_area_for_improvement has returned and every label in the written file
\* is one of the 7 taxonomy labels, "other", "none" or "multiple".
C1_LabelsAllowed ==
    /\ LabelsAssigned =>
           \A k \in DOMAIN df.rows : AllowedLabel(Label(df, k))
    /\ \A r \in Range(result) : r \in Allowed
    /\ \A f \in Range(output) :
           \A k \in DOMAIN f.rows : AllowedLabel(Label(f, k))

\* The service returned text that is no label and the method returned "other".
C1_Witness ==
    /\ pc = "store"
    /\ response # <<>>
    /\ Trimmed(response[1]) \notin Allowed
    /\ result = <<other>>

\* C2: a row whose text is empty or whitespace-only gets no request, and its
\* label is "none" once it is classified.
C2_BlankTextNoCall ==
    \A k \in 1..NRows :
        (HasText(k) /\ IsBlank(input.rows[k][TextColumn])) =>
            /\ calls[k] = 0
            /\ classified[k] > 0 => Label(df, k).v = none

\* C3: when the request of a row failed, the row's label is "none", and the
\* run does not abort before the write step.
C3_FailureDoesNotAbort ==
    \A k \in failed :
        /\ classified[k] > 0 => Label(df, k).v = none
        /\ pc = "Aborted" => abortedAt = "write"

\* C4: the label stored for a row whose request returned text is the text
\* without its surrounding whitespace when that is an allowed label, and
\* "other" otherwise.
C4_ResponseCoercion ==
    [][(pc = "store" /\ response # <<>>) =>
          LET s == response[1]
              stored == df'.rows[index][LabelColumn].v
          IN  IF Trimmed(s) \in Allowed
              THEN stored = Trimmed(s)
              ELSE stored = other]_vars

\* A reply padded on both sides was trimmed to a taxonomy label, which is
\* about to be stored.
C4_Witness ==
    /\ pc = "store"
    /\ response # <<>>
    /\ Len(response[1]) > Len(result[1])
    /\ response[1][1] \in Whitespace
    /\ response[1][Len(response[1])] \in Whitespace
    /\ result[1] \in Range(teaching_skills)

\* C5: the written file has the columns of the input in order followed by
\* one new column, and every row of the input with its values unchanged.
C5_RoundTrip ==
    pc = "Written" =>
        LET out == output[1] IN
        /\ out.columns = Append(input.columns, LabelColumn)
        /\ Len(out.rows) = Len(input.rows)
        /\ \A k \in DOMAIN input.rows :
               \A c \in Range(input.columns) :
                   out.rows[k][c] = input.rows[k][c]

\* C6: the run aborts only at the load, at the construction of the analyzer
\* or at the write.
C6_AbortOnlyAtLoadConstructWrite ==
    pc = "Aborted" => abortedAt \in {"unloaded", "loaded", "write"}

\* C7: an aborted run has written no output, and after a failed load or a
\* failed construction there is no request, no classification and no write.
C7_NoOutputOnAbort ==
    /\ pc = "Aborted" => output = <<>>
    /\ abortedAt \in {"unloaded", "loaded"} =>
           /\ \A k \in 1..NRows : calls[k] = 0 /\ classified[k] = 0
           /\ inflight = 0
           /\ output = <<>>

\* The write failed after requests were made.
C7_Witness ==
    /\ pc = "Aborted"
    /\ abortedAt = "write"
    /\ \E k \in 1..NRows : calls[k] = 1

\* The place of a statement in the sequence Load, Classify 1..N, Write.
Inner(p) ==
    CASE p = "iter" -> 0
      [] p = "guard" -> 1
      [] p = "request" -> 2
      [] p = "await" -> 3
      [] OTHER -> 4

Position(p, i) ==
    CASE p = "unloaded" -> 0
      [] p = "loaded" -> 1
      [] p = "constructed" -> 2
      [] p \in LoopPcs -> 3 + 5 * (i - 1) + Inner(p)
      [] p = "write" -> 4 + 5 * NRows
      [] p = "Written" -> 5 + 5 * NRows
      [] OTHER -> 6 + 5 * NRows

\* C8: the rows classified so far are exactly the rows before the current
\* one, each once; at most one request is in flight; the write comes only
\* after every row was classified once; no row is classified after the
\* write; and every step moves forward in the sequence.
C8_StrictSequence ==
    /\ [](/\ inflight <= 1
          /\ \A k \in 1..NRows : classified[k] = IF k < index THEN 1 ELSE 0
          /\ (pc \in {"write", "Written"} \/ abortedAt = "write"
                \/ output # <<>>) =>
                 \A k \in 1..NRows : classified[k] = 1)
    /\ [][/\ Position(pc', index') > Position(pc, index)
          /\ classified' # classified =>
                 /\ pc = "store"
                 /\ output = <<>>
                 /\ \A k \in 1..NRows :
                        k # index => classified'[k] = classified[k]]_vars

\* Two rows were classified, with requests, and the file was written.
C8_Witness ==
    /\ pc = "Written"
    /\ NRows >= 2
    /\ \A k \in 1..NRows : classified[k] = 1 /\ calls[k] = 1

C10_Termination ==
    /\ <>Terminal
    /\ [][Terminal => UNCHANGED vars]_vars
    /\ [](pc = "Written" =>
            /\ \A k \in 1..NRows :
                   /\ classified[k] = 1
                   /\ LabelColumn \in DOMAIN output[1].rows[k]
            /\ Len(output[1].rows) = NRows
            /\ Cardinality({j \in DOMAIN output[1].columns :
                              output[1].columns[j] = LabelColumn}) = 1)

\* A run over a non-empty spreadsheet ended in Written.
C10_Witness ==
    /\ pc = "Written"
    /\ NRows >= 1
    /\ output # <<>>

====
